---- MODULE Spec2Model ----
(***************************************************************************)
(* Model of the compression pipeline of PDFProcessor                       *)
(* (src/pdf_processor.py): the strategy selector smart_compress_pdf, the   *)
(* orchestrator compress_pdf, the backend dispatcher                       *)
(* _compress_pdf_with_method with its two backends, and the wrappers       *)
(* compress_pdf_with_settings and compress_pdf_safe.                       *)
(*                                                                         *)
(* The file system is a function from paths to file contents.  Path SRC is *)
(* pdf_path; path k >= 1 is the output path of the k-th call of            *)
(* _compress_pdf_with_method (each call makes its own mkdtemp directory,   *)
(* so the paths never collide).  A content is its byte size and the        *)
(* attempt that wrote it (0 for the content the caller supplied).          *)
(***************************************************************************)
EXTENDS Integers, Sequences, FiniteSets, TLC

VARIABLES
    pc,                 \* position in the running entry point
    entry,              \* entry point the caller invoked
    source_size,        \* byte size of the source when the entry point was called
    fs,                 \* path -> content, NoFile when nothing is there
    analysis,           \* dict returned by analyze_pdf_structure ({} when ok = FALSE)
    method,             \* the method argument of compress_pdf
    original_size,      \* compress_pdf: original_size
    safe_original_size, \* compress_pdf_safe: original_size
    idx,                \* index of the running for loop (1-based)
    output_path,        \* value returned by the last _compress_pdf_with_method
    log,                \* one record per _compress_pdf_with_method call, in call order
    shrunk,             \* some backend has written a file smaller than source_size
    tmpdirs,            \* the mkdtemp directories that exist
    probes,             \* number of _has_ghostscript calls made
    ret,                \* path handed back to the caller, None before the return
    \* rasterization and enhancement (pdf_to_images,
    \* pdf_to_images_with_enhancement, adjust_contrast_brightness)
    r_pc,               \* position in the running entry point
    r_entry,            \* entry point the caller invoked
    n_pages,            \* len(doc)
    dpi,                \* dpi in effect
    max_size,           \* max_size argument of pdf_to_images
    handles,            \* documents opened by fitz.open and not closed
    page_num,           \* loop variable of the page loop
    images,             \* images / processed_images: the paths collected so far
    files,              \* the image files that exist in temp_dir
    out,                \* what is at output_pdf_path: "none", "partial", "complete"
    out_pages,          \* the pages of the document written at output_pdf_path
    renders,            \* page numbers get_pixmap was called for, in call order
    last_render,        \* geometry of the latest get_pixmap of pdf_to_images
    failed,             \* the step that raised and its page, NoFailure if none
    r_ret,              \* what the caller gets back
    \* packaging for delivery (process_images)
    p_pc,               \* position in process_images
    image_sizes,        \* byte sizes of the images returned by pdf_to_images
    ceiling,            \* byte-size ceiling of one delivery unit
    archive,            \* archive_bytes: the indices of the images packed in it
    sent,               \* the units handed to send_document_with_retry
    temp_files,         \* whether the images and temp_dir of the request exist
    t_pc,               \* position of the task running send_document_with_retry
    max_retries,        \* its max_retries
    attempt,            \* its loop variable
    t_log,              \* its send attempts and sleeps, in order
    t_ret,              \* what it returned, "none" before the return
    \* enhance_image_with_settings on one image
    e_pc,               \* position in enhance_image_with_settings
    e_args,             \* contrast, brightness, sharpness, auto_enhance
    img,                \* the image in memory: its mode and the steps applied to it
    disk,               \* image files in the directory: name -> content
    e_ret,              \* name of the file returned, "none" before the return
    \* the per-user settings store
    user_settings,      \* self.user_settings: key -> entry, NoEntry if absent
    settings_file,      \* content of user_settings.json
    op,                 \* the last call made on the store
    request,            \* the arguments and the outcome of that call
    n_ops,              \* number of calls made on the store
    \* analyze_pdf_structure on one document
    a_pc,               \* position in analyze_pdf_structure
    a_doc,              \* the pages of the document
    a_opens,            \* whether the document can be read
    a_info,             \* the dict returned
    \* optimize_image_size on one image file
    o_pc,               \* position in optimize_image_size
    o_disk,             \* what is on disk: byte sizes at image_path and temp_path
    max_file_size,      \* the argument max_file_size
    o_opens,            \* whether Image.open reads the file
    file_size,          \* the local file_size
    o_quality,          \* the local quality
    o_saves,            \* the qualities of the img.save calls made, in order
    o_ret,              \* what was returned, "none" before the return
    \* one user's conversation with the bot (src/main.py)
    fsm_state,          \* the state of the FSMContext
    fsm_data,           \* the data of the FSMContext
    pdf_files,          \* the uploads whose temp_dir and input file exist
    n_uploads,          \* documents received so far
    keyboards,          \* messages of the chat that carry an inline keyboard
    started             \* the latest pipeline start: handler, path, file there

compress_vars == <<pc, entry, source_size, fs, analysis, method, original_size,
                   safe_original_size, idx, output_path, log, shrunk, tmpdirs,
                   probes, ret>>

raster_vars == <<r_pc, r_entry, n_pages, dpi, max_size, handles, page_num,
                 images, files, out, out_pages, renders, last_render, failed,
                 r_ret>>

pack_vars == <<p_pc, image_sizes, ceiling, archive, sent, temp_files, t_pc,
               max_retries, attempt, t_log, t_ret>>

enhance_vars == <<e_pc, e_args, img, disk, e_ret>>

settings_vars == <<user_settings, settings_file, op, request, n_ops>>

analyze_vars == <<a_pc, a_doc, a_opens, a_info>>

optimize_vars == <<o_pc, o_disk, max_file_size, o_opens, file_size, o_quality,
                   o_saves, o_ret>>

chat_vars == <<fsm_state, fsm_data, pdf_files, n_uploads, keyboards, started>>

vars == <<compress_vars, raster_vars, pack_vars, enhance_vars, settings_vars,
          analyze_vars, optimize_vars, chat_vars>>

----------------------------------------------------------------------------
(* Bounds of the model *)

MaxPages == 4      \* documents have 0..MaxPages pages
SmallSize == 10    \* byte size of the small source document
Grow == 1          \* a backend output exceeds the source by at most Grow bytes

----------------------------------------------------------------------------
(* Paths and contents *)

SRC == 0
None == -1
NoFile == [size |-> -1, from |-> -1]

\* compress_pdf makes at most 4 calls of _compress_pdf_with_method and
\* compress_pdf_safe at most 3 more
MaxCalls == 4 + 3
Paths == 0..MaxCalls

Exists(p) == p # None /\ fs[p] # NoFile

Min(a, b) == IF a < b THEN a ELSE b

----------------------------------------------------------------------------
(* analyze_pdf_structure and the selector of smart_compress_pdf *)

Page == [text : BOOLEAN, images : BOOLEAN]

RECURSIVE SeqsUpTo(_, _)
SeqsUpTo(S, n) ==
    IF n = 0 THEN {<<>>}
    ELSE LET shorter == SeqsUpTo(S, n - 1)
         IN  shorter \cup {Append(s, x) : s \in {t \in shorter : Len(t) = n - 1}, x \in S}

Docs == SeqsUpTo(Page, MaxPages)

\* the keys of the dict that smart_compress_pdf reads; ok = FALSE is the {}
\* returned when the document cannot be opened
EmptyAnalysis == [ok |-> FALSE, has_images |-> FALSE, has_text |-> FALSE,
                  file_size |-> 0]

\* analyze_pdf_structure looking at every page
analyze_pdf_structure_all_pages(opens, pages, size) ==
    IF ~opens THEN EmptyAnalysis
    ELSE [ok |-> TRUE,
          has_images |-> \E i \in 1..Len(pages) : pages[i].images,
          has_text |-> \E i \in 1..Len(pages) : pages[i].text,
          file_size |-> size]

analyze_pdf_structure(opens, pages, size) ==
    IF ~opens THEN EmptyAnalysis
    ELSE [ok |-> TRUE,
          has_images |-> \E i \in 1..Min(3, Len(pages)) : pages[i].images,
          has_text |-> \E i \in 1..Min(3, Len(pages)) : pages[i].text,
          file_size |-> size]

\* select_method with the size thresholds made inclusive
select_method_inclusive(a, size) ==
    LET osize == IF a.ok THEN a.file_size ELSE size
    IN  IF a.has_images
        THEN IF osize >= 50 * 1024 * 1024 THEN "extreme"
             ELSE IF osize >= 10 * 1024 * 1024 THEN "aggressive"
             ELSE "balanced"
        ELSE IF a.has_text /\ ~a.has_images THEN "light"
        ELSE "balanced"

select_method(a, size) ==
    LET osize == IF a.ok THEN a.file_size ELSE size
    IN  IF a.has_images
        THEN IF osize > 50 * 1024 * 1024 THEN "extreme"
             ELSE IF osize > 10 * 1024 * 1024 THEN "aggressive"
             ELSE "balanced"
        ELSE IF a.has_text /\ ~a.has_images THEN "light"
        ELSE "balanced"

----------------------------------------------------------------------------
(* The backends *)

Methods == {"light", "balanced", "aggressive", "extreme"}

\* byte sizes a backend may produce for a source of o bytes: the boundary
\* values of the tests the orchestrators make on them
OutSizes(o) ==
    {s \in {0, 1, (9 * o) \div 10 - 1, (9 * o) \div 10, (9 * o) \div 10 + 1,
            o - 1, o} \cup (o + 1)..(o + Grow) : s >= 0}

\* runs of the gs process: exit code, whether a file is at the output path
\* afterwards, and its size
GsRuns(o) ==
    {[rc |-> 0, written |-> TRUE, size |-> s] : s \in OutSizes(o)}
    \cup {[rc |-> 0, written |-> FALSE, size |-> 0],
          [rc |-> 1, written |-> FALSE, size |-> 0],
          [rc |-> 1, written |-> TRUE, size |-> 0]}

\* runs of the PyMuPDF re-encode: it raises before new_doc.save, or saves a
\* document (never empty)
FitzRuns(o) ==
    {[raised |-> FALSE, size |-> s] : s \in OutSizes(o) \ {0}}
    \cup {[raised |-> TRUE, size |-> 0]}

\* placeholders for a backend that is not invoked
NoGsRun == [rc |-> 1, written |-> FALSE, size |-> 0]
NoFitzRun == [raised |-> TRUE, size |-> 0]

\* success test of _compress_with_ghostscript
gs_succeeded(run) == run.rc = 0 /\ run.written

\* after_probe with gs probed a second time
after_probe_twice(n) == n + 2

\* the _has_ghostscript call of _compress_pdf_with_method
after_probe(n) == n + 1

\* backends_run with the in-process backend tried after a failed gs run
backends_run_fallback(has_gs, gs_ok) ==
    IF has_gs THEN (IF gs_ok THEN <<"gs">> ELSE <<"gs", "fitz">>) ELSE <<"fitz">>

\* the try block of _compress_pdf_with_method: the backends it invokes, in
\* order, given the probe result and whether the gs invocation succeeded
backends_run(has_gs, gs_ok) == IF has_gs THEN <<"gs">> ELSE <<"fitz">>

\* _compress_pdf_with_method(pdf_path, m): probes gs, runs the backend,
\* returns the output path, or None when the backend raised
_compress_pdf_with_method(m) ==
    LET p == Len(log) + 1 IN
    \E has_gs \in BOOLEAN :
    \E g \in IF has_gs THEN GsRuns(source_size) ELSE {NoGsRun} :
    \E f \in IF \E i \in 1..Len(backends_run(has_gs, gs_succeeded(g))) :
                    backends_run(has_gs, gs_succeeded(g))[i] = "fitz"
             THEN FitzRuns(source_size) ELSE {NoFitzRun} :
        LET bs == backends_run(has_gs, gs_succeeded(g))
            ran(b) == \E i \in 1..Len(bs) : bs[i] = b
            last == bs[Len(bs)]
            ok == IF last = "gs" THEN gs_succeeded(g) ELSE ~f.raised
            content == IF last = "fitz" /\ ~f.raised THEN [size |-> f.size, from |-> p]
                       ELSE IF ran("gs") /\ g.written THEN [size |-> g.size, from |-> p]
                       ELSE NoFile
        IN  /\ fs' = [fs EXCEPT ![p] = content]
            /\ output_path' = IF ok THEN p ELSE None
            /\ log' = Append(log, [method |-> m, has_gs |-> has_gs,
                                   gs |-> ran("gs"), fitz |-> ran("fitz"),
                                   ok |-> ok])
            /\ shrunk' = (shrunk \/ (content # NoFile /\ content.size < source_size))
            /\ tmpdirs' = tmpdirs \cup {<<"method", p>>}
                              \cup (IF ran("fitz") THEN {<<"fitz", p>>} ELSE {})
            /\ probes' = after_probe(probes)

----------------------------------------------------------------------------
(* smart_compress_pdf and compress_pdf *)

\* methods_to_try ordered from least to most destructive
methods_to_try_least_first == <<"light", "balanced", "aggressive", "extreme">>

\* methods_to_try without its last method
methods_to_try_short == <<"aggressive", "balanced", "light">>

methods_to_try == <<"aggressive", "balanced", "light", "extreme">>

\* accepts with any strictly smaller output taken
accepts_strictly_smaller(compressed_size, osize, i) ==
    compressed_size < osize \/ i = Len(methods_to_try)

\* the acceptance test of compress_pdf: compression_ratio < 0.9 or this is
\* the last method
accepts(compressed_size, osize, i) ==
    10 * compressed_size < 9 * osize \/ i = Len(methods_to_try)

smart_compress_pdf ==
    /\ pc = "smart"
    /\ \E opens \in BOOLEAN, pages \in Docs :
          LET a == analyze_pdf_structure(opens, pages, fs[SRC].size)
          IN  /\ analysis' = a
              /\ method' = select_method(a, fs[SRC].size)
    /\ pc' = "compress_pdf"
    /\ UNCHANGED <<raster_vars, pack_vars,
                   enhance_vars, settings_vars, analyze_vars,
                   optimize_vars, chat_vars>>
    /\ UNCHANGED <<entry, source_size, fs, original_size, safe_original_size,
                   idx, output_path, log, shrunk, tmpdirs, probes, ret>>

compress_pdf ==
    /\ pc = "compress_pdf"
    /\ original_size' = fs[SRC].size
    /\ idx' = 1
    /\ pc' = "loop"
    /\ UNCHANGED <<raster_vars, pack_vars,
                   enhance_vars, settings_vars, analyze_vars,
                   optimize_vars, chat_vars>>
    /\ UNCHANGED <<entry, source_size, fs, analysis, method,
                   safe_original_size, output_path, log, shrunk, tmpdirs, probes, ret>>

\* after_attempt with the next attempt started at once
after_attempt_not_awaited == "loop"

\* where compress_pdf is after the awaited _compress_pdf_with_method has
\* returned (its gs process has exited by then: process.communicate() is
\* awaited as well): at the tests of the result
after_attempt == "validate"

compress_pdf_attempt ==
    /\ pc = "loop"
    /\ idx <= Len(methods_to_try)
    /\ _compress_pdf_with_method(methods_to_try[idx])
    /\ pc' = after_attempt
    /\ UNCHANGED <<raster_vars, pack_vars,
                   enhance_vars, settings_vars, analyze_vars,
                   optimize_vars, chat_vars>>
    /\ UNCHANGED <<entry, source_size, analysis, method, original_size,
                   safe_original_size, idx, ret>>

\* where compress_pdf's caller continues
Return(p) ==
    IF entry = "safe"
    THEN /\ pc' = "with_settings"
         /\ output_path' = p
         /\ ret' = ret
    ELSE /\ pc' = "done"
         /\ output_path' = output_path
         /\ ret' = p

compress_pdf_validate ==
    /\ pc = "validate"
    /\ IF Exists(output_path)
       THEN IF original_size = 0
            THEN \* ZeroDivisionError, caught by the except: continue
                 /\ idx' = idx + 1
                 /\ pc' = "loop"
                 /\ UNCHANGED <<fs, output_path, ret>>
            ELSE IF accepts(fs[output_path].size, original_size, idx)
                 THEN /\ Return(output_path)
                      /\ UNCHANGED <<fs, idx>>
                 ELSE /\ fs' = [fs EXCEPT ![output_path] = NoFile]
                      /\ idx' = idx + 1
                      /\ pc' = "loop"
                      /\ UNCHANGED <<output_path, ret>>
       ELSE /\ idx' = idx + 1
            /\ pc' = "loop"
            /\ UNCHANGED <<fs, output_path, ret>>
    /\ UNCHANGED <<raster_vars, pack_vars,
                   enhance_vars, settings_vars, analyze_vars,
                   optimize_vars, chat_vars>>
    /\ UNCHANGED <<entry, source_size, analysis, method, original_size,
                   safe_original_size, log, shrunk, tmpdirs, probes>>

compress_pdf_giveup ==
    /\ pc = "loop"
    /\ idx > Len(methods_to_try)
    /\ Return(SRC)
    /\ UNCHANGED <<raster_vars, pack_vars,
                   enhance_vars, settings_vars, analyze_vars,
                   optimize_vars, chat_vars>>
    /\ UNCHANGED <<entry, source_size, fs, analysis, method, original_size,
                   safe_original_size, idx, log, shrunk, tmpdirs, probes>>

----------------------------------------------------------------------------
(* The other pipelines at rest *)

NoFailure == [step |-> "none", page |-> -1]
NoRender == [width |-> 0, height |-> 0, num |-> 0, den |-> 1, pw |-> 0, ph |-> 0]

\* no rasterization entry point is running
RasterIdle ==
    /\ r_pc = "idle"
    /\ r_entry = "none"
    /\ n_pages = 0
    /\ dpi = 0
    /\ max_size = 0
    /\ handles = 0
    /\ page_num = 0
    /\ images = <<>>
    /\ files = {}
    /\ out = "none"
    /\ out_pages = <<>>
    /\ renders = <<>>
    /\ last_render = NoRender
    /\ failed = NoFailure
    /\ r_ret = "none"

\* process_images is not running
PackIdle ==
    /\ p_pc = "idle"
    /\ image_sizes = <<>>
    /\ ceiling = 0
    /\ archive = <<>>
    /\ sent = <<>>
    /\ temp_files = FALSE
    /\ t_pc = "none"
    /\ max_retries = 0
    /\ attempt = 0
    /\ t_log = <<>>
    /\ t_ret = "none"

NoArgs == [contrast |-> 0, brightness |-> 0, sharpness |-> 0, auto_enhance |-> FALSE]
NoImage == [mode |-> "none", steps |-> <<>>]
NoValue == -99999
NoRequest == [user |-> 0, contrast |-> NoValue, brightness |-> NoValue,
              dpi |-> NoValue, result |-> "none"]
NoInfo == [ok |-> FALSE, has_images |-> FALSE, has_text |-> FALSE, file_size |-> 0]

\* enhance_image_with_settings is not running
EnhanceIdle ==
    /\ e_pc = "idle"
    /\ e_args = NoArgs
    /\ img = NoImage
    /\ disk = <<>>
    /\ e_ret = "none"

\* nothing is called on the settings store
SettingsIdle ==
    /\ user_settings = <<>>
    /\ settings_file = <<>>
    /\ op = "none"
    /\ request = NoRequest
    /\ n_ops = 0

\* analyze_pdf_structure is not running
AnalyzeIdle ==
    /\ a_pc = "idle"
    /\ a_doc = <<>>
    /\ a_opens = FALSE
    /\ a_info = NoInfo

NoData == [input_pdf_path |-> 0, temp_dir |-> 0, action |-> "none"]

OptimizeIdle ==
    /\ o_pc = "idle"
    /\ o_disk = [image |-> 0, temp |-> 0]
    /\ max_file_size = 0
    /\ o_opens = FALSE
    /\ file_size = 0
    /\ o_quality = 0
    /\ o_saves = <<>>
    /\ o_ret = "none"

ChatIdle ==
    /\ fsm_state = "None"
    /\ fsm_data = NoData
    /\ pdf_files = {}
    /\ n_uploads = 0
    /\ keyboards = 0
    /\ started = [handler |-> "none", path |-> 0, exists |-> FALSE]

\* no compression entry point is running
CompressIdle ==
    /\ pc = "idle"
    /\ entry = "none"
    /\ source_size = 0
    /\ fs = [p \in Paths |-> NoFile]
    /\ analysis = EmptyAnalysis
    /\ method = "aggressive"
    /\ original_size = 0
    /\ safe_original_size = 0
    /\ idx = 0
    /\ output_path = None
    /\ log = <<>>
    /\ shrunk = FALSE
    /\ tmpdirs = {}
    /\ probes = 0
    /\ ret = None

----------------------------------------------------------------------------
(* Specification of the entry points smart_compress_pdf and compress_pdf *)

SourceSizes ==
    {0, SmallSize, 10 * 1024 * 1024, 10 * 1024 * 1024 + 1,
     50 * 1024 * 1024, 50 * 1024 * 1024 + 1}

InitCommon ==
    /\ source_size \in SourceSizes
    /\ fs = [p \in Paths |-> IF p = SRC THEN [size |-> source_size, from |-> 0]
                             ELSE NoFile]
    /\ analysis = EmptyAnalysis
    /\ original_size = 0
    /\ safe_original_size = 0
    /\ idx = 0
    /\ output_path = None
    /\ log = <<>>
    /\ shrunk = FALSE
    /\ tmpdirs = {}
    /\ probes = 0
    /\ ret = None
    /\ RasterIdle
    /\ PackIdle
    /\ EnhanceIdle
    /\ SettingsIdle
    /\ AnalyzeIdle
    /\ OptimizeIdle
    /\ ChatIdle

Init ==
    /\ InitCommon
    /\ \/ entry = "smart" /\ pc = "smart" /\ method = "aggressive"
       \/ entry = "compress" /\ pc = "compress_pdf" /\ method \in Methods

Next ==
    \/ smart_compress_pdf
    \/ compress_pdf
    \/ compress_pdf_attempt
    \/ compress_pdf_validate
    \/ compress_pdf_giveup

Spec == Init /\ [][Next]_vars

----------------------------------------------------------------------------
(* compress_pdf_with_settings and compress_pdf_safe *)

methods == <<"light", "balanced", "aggressive">>

\* compress_pdf_safe up to its call of compress_pdf_with_settings, which
\* calls smart_compress_pdf
compress_pdf_safe ==
    /\ pc = "safe"
    /\ safe_original_size' = fs[SRC].size
    /\ pc' = "smart"
    /\ UNCHANGED <<raster_vars, pack_vars,
                   enhance_vars, settings_vars, analyze_vars,
                   optimize_vars, chat_vars>>
    /\ UNCHANGED <<entry, source_size, fs, analysis, method, original_size,
                   idx, output_path, log, shrunk, tmpdirs, probes, ret>>

\* compress_pdf_with_settings after smart_compress_pdf returned: final_path
\* is pdf_path itself, the compressed file replaces what is there
compress_pdf_with_settings ==
    /\ pc = "with_settings"
    /\ fs' = IF output_path # SRC
             THEN [fs EXCEPT ![SRC] = fs[output_path], ![output_path] = NoFile]
             ELSE fs
    /\ output_path' = SRC
    /\ pc' = "safe_check"
    /\ UNCHANGED <<raster_vars, pack_vars,
                   enhance_vars, settings_vars, analyze_vars,
                   optimize_vars, chat_vars>>
    /\ UNCHANGED <<entry, source_size, analysis, method, original_size,
                   safe_original_size, idx, log, shrunk, tmpdirs, probes, ret>>

\* compress_pdf_safe: compressed_path is SRC from here on
compress_pdf_safe_check ==
    /\ pc = "safe_check"
    /\ IF fs[SRC].size < safe_original_size
       THEN /\ ret' = SRC
            /\ pc' = "done"
            /\ idx' = idx
       ELSE /\ idx' = 1
            /\ pc' = "safe_loop"
            /\ ret' = ret
    /\ UNCHANGED <<raster_vars, pack_vars,
                   enhance_vars, settings_vars, analyze_vars,
                   optimize_vars, chat_vars>>
    /\ UNCHANGED <<entry, source_size, fs, analysis, method, original_size,
                   safe_original_size, output_path, log, shrunk, tmpdirs, probes>>

compress_pdf_safe_attempt ==
    /\ pc = "safe_loop"
    /\ idx <= Len(methods)
    /\ _compress_pdf_with_method(methods[idx])
    /\ pc' = "safe_validate"
    /\ UNCHANGED <<raster_vars, pack_vars,
                   enhance_vars, settings_vars, analyze_vars,
                   optimize_vars, chat_vars>>
    /\ UNCHANGED <<entry, source_size, analysis, method, original_size,
                   safe_original_size, idx, ret>>

\* compress_pdf_safe_except with the exception let through
compress_pdf_safe_except_reraise == "raise"

\* the bare except of the retry loop of compress_pdf_safe
compress_pdf_safe_except == "continue"

compress_pdf_safe_validate ==
    /\ pc = "safe_validate"
    /\ IF output_path = None
       THEN \* os.path.getsize(None) raises TypeError inside the try
            /\ idx' = IF compress_pdf_safe_except = "continue" THEN idx + 1 ELSE idx
            /\ pc' = IF compress_pdf_safe_except = "continue" THEN "safe_loop"
                     ELSE "raised"
            /\ UNCHANGED <<fs, ret>>
       ELSE IF fs[output_path].size < safe_original_size
            THEN /\ fs' = [fs EXCEPT ![SRC] = NoFile]
                 /\ ret' = output_path
                 /\ pc' = "done"
                 /\ idx' = idx
            ELSE /\ fs' = [fs EXCEPT ![output_path] = NoFile]
                 /\ idx' = idx + 1
                 /\ pc' = "safe_loop"
                 /\ ret' = ret
    /\ UNCHANGED <<raster_vars, pack_vars,
                   enhance_vars, settings_vars, analyze_vars,
                   optimize_vars, chat_vars>>
    /\ UNCHANGED <<entry, source_size, analysis, method, original_size,
                   safe_original_size, output_path, log, shrunk, tmpdirs, probes>>

\* compressed_path = pdf_path: nothing is removed
compress_pdf_safe_giveup ==
    /\ pc = "safe_loop"
    /\ idx > Len(methods)
    /\ ret' = SRC
    /\ pc' = "done"
    /\ UNCHANGED <<raster_vars, pack_vars,
                   enhance_vars, settings_vars, analyze_vars,
                   optimize_vars, chat_vars>>
    /\ UNCHANGED <<entry, source_size, fs, analysis, method, original_size,
                   safe_original_size, idx, output_path, log, shrunk, tmpdirs, probes>>

----------------------------------------------------------------------------
(* Specification of the entry point compress_pdf_safe *)

SafeSourceSizes == {0, SmallSize}

InitSafe ==
    /\ InitCommon
    /\ source_size \in SafeSourceSizes
    /\ entry = "safe"
    /\ pc = "safe"
    /\ method = "aggressive"

NextSafe ==
    \/ compress_pdf_safe
    \/ smart_compress_pdf
    \/ compress_pdf
    \/ compress_pdf_attempt
    \/ compress_pdf_validate
    \/ compress_pdf_giveup
    \/ compress_pdf_with_settings
    \/ compress_pdf_safe_check
    \/ compress_pdf_safe_attempt
    \/ compress_pdf_safe_validate
    \/ compress_pdf_safe_giveup

SpecSafe == InitSafe /\ [][NextSafe]_vars

----------------------------------------------------------------------------
(* Properties of the compression pipeline *)

Original == [size |-> source_size, from |-> 0]

LogMethods == {log[i].method : i \in 1..Len(log)}

\* C1: the file returned by smart_compress_pdf / compress_pdf is never larger
\* than the source file.  Violated: the output of the last method is returned
\* whatever its size.
C1_OutputNeverLarger ==
    pc = "done" => Exists(ret) /\ fs[ret].size <= source_size

\* C2, as stated: the returned attempt output is that of the first method
\* whose output is strictly smaller than the source; an output is accepted
\* when it is strictly smaller and never when it is equal or larger.
C2_FirstStrictlySmaller ==
    /\ [](pc = "done" /\ ret # SRC => fs[ret].size < source_size)
    /\ [][pc = "validate" /\ Exists(output_path)
            /\ fs[output_path].size < source_size
          => pc' = "done" /\ ret' = output_path]_vars

\* C2, amended: the returned attempt output is that of the first method in
\* attempt order whose output is below 90% of the (non-empty) source or which
\* is the last method, extreme; such an output is accepted at once, any other
\* is rejected.
C2_FirstUnderNinetyPercentOrLast ==
    /\ [](pc = "done" /\ ret # SRC =>
            /\ ret = Len(log)
            /\ source_size > 0
            /\ \/ 10 * fs[ret].size < 9 * source_size
               \/ log[ret].method = "extreme")
    /\ [][pc = "validate" /\ Exists(output_path) /\ source_size > 0
            /\ \/ 10 * fs[output_path].size < 9 * source_size
               \/ log[Len(log)].method = "extreme"
          => pc' = "done" /\ ret' = output_path]_vars

\* an output was accepted under the 90% rule after an earlier one was rejected
C2_Witness ==
    /\ pc = "done" /\ ret > 1
    /\ log[ret].method # "extreme"
    /\ 10 * fs[ret].size < 9 * source_size
    /\ log[1].ok

\* C3: when all methods were tried and none wrote a file strictly smaller
\* than the source, the source path is returned and still holds the original
\* content.  Violated: the output of extreme is returned.
C3_ExhaustionReturnsOriginal ==
    pc = "done" /\ LogMethods = Methods /\ ~shrunk
    => ret = SRC /\ fs[SRC] = Original

\* C4: the file at the path returned by compress_pdf_safe is no larger than
\* the source was when compress_pdf_safe was called.  Violated: a larger
\* output of extreme replaces the source and is returned.
C4_SafeNeverLarger ==
    pc = "done" /\ entry = "safe" =>
        Exists(ret) /\ fs[ret].size <= safe_original_size

\* C5: the first method attempted is the primary method handed to
\* compress_pdf.  Violated: the method argument is ignored.
C5_FirstAttemptIsPrimary ==
    Len(log) >= 1 => log[1].method = method

\* the policy table of the selector, top to bottom
PolicyTable(has_images, has_text, size) ==
    CASE has_images /\ size > 50 * 1024 * 1024 -> "extreme"
      [] has_images /\ size <= 50 * 1024 * 1024 /\ size > 10 * 1024 * 1024 -> "aggressive"
      [] has_images /\ size <= 10 * 1024 * 1024 -> "balanced"
      [] ~has_images /\ has_text -> "light"
      [] OTHER -> "balanced"

\* C6: the primary method chosen by smart_compress_pdf follows the policy
\* table; the thresholds are strict; a failed analysis gives balanced.
C6_SelectorPolicy ==
    entry = "smart" /\ pc # "smart" =>
        /\ method = PolicyTable(analysis.has_images, analysis.has_text, source_size)
        /\ (analysis.has_images /\ source_size = 50 * 1024 * 1024 => method = "aggressive")
        /\ (analysis.has_images /\ source_size = 10 * 1024 * 1024 => method = "balanced")
        /\ (~analysis.ok => method = "balanced")

C6_Witness ==
    /\ entry = "smart" /\ pc = "compress_pdf"
    /\ analysis.has_images /\ source_size = 50 * 1024 * 1024
    /\ method = "aggressive"

Rank(m) ==
    CASE m = "light" -> 1 [] m = "balanced" -> 2
      [] m = "aggressive" -> 3 [] m = "extreme" -> 4

\* C7, as stated: the methods other than the primary are attempted from
\* least to most destructive, and no method is attempted twice.
C7_LeastToMostDestructive ==
    \A i, j \in 1..Len(log) :
        i < j =>
            /\ log[i].method # log[j].method
            /\ (log[i].method # method /\ log[j].method # method
                => Rank(log[i].method) < Rank(log[j].method))

\* C7, amended: the methods are attempted in the fixed order aggressive,
\* balanced, light, extreme, whatever the primary method, each at most once.
C7_FixedOrder ==
    /\ Len(log) <= 4
    /\ \A i \in 1..Len(log) :
          log[i].method = <<"aggressive", "balanced", "light", "extreme">>[i]

C7_Witness ==
    /\ pc = "done" /\ Len(log) = 4 /\ ret = SRC
    /\ entry = "smart" /\ method = "light" /\ source_size > 0

\* C8: an invocation gives up (compress_pdf returns the source path; or
\* compress_pdf_safe returns the source path without a smaller file there)
\* only after light, balanced, aggressive and extreme were all attempted.
C8_GiveUpAfterAllMethods ==
    /\ (pc = "with_settings" /\ output_path = SRC => LogMethods = Methods)
    /\ (pc = "done" /\ ret = SRC /\ fs[SRC].size >= source_size
        => LogMethods = Methods)

C8_Witness ==
    /\ pc = "done" /\ ret = SRC /\ fs[SRC] = Original
    /\ source_size > 0 /\ Len(log) = 7

\* C9, as stated: when gs is present and its invocation fails, the
\* in-process backend is attempted before the orchestrator gives up.
C9_FallbackAfterGsFailure ==
    pc = "done" /\ ret = SRC =>
        \A i \in 1..Len(log) :
            log[i].gs /\ ~log[i].ok => \E j \in i..Len(log) : log[j].fitz

\* C9, amended: an attempt uses the in-process backend exactly when its
\* probe reports gs missing; a failed gs invocation ends the attempt without
\* output and without the in-process backend.
C9_FitzOnlyWhenGsMissing ==
    /\ \A i \in 1..Len(log) :
          /\ log[i].fitz <=> ~log[i].has_gs
          /\ log[i].gs <=> log[i].has_gs
    /\ (pc = "validate" /\ log[Len(log)].gs /\ ~log[Len(log)].ok
        => output_path = None)

C9_Witness ==
    /\ pc = "done" /\ ret = SRC /\ source_size > 0
    /\ \E i \in 1..Len(log) : log[i].gs /\ ~log[i].ok
    /\ \A j \in 1..Len(log) : ~log[j].fitz

\* C10: a gs run that exits zero and leaves an empty output file is a failed
\* attempt, and no empty output is returned to the caller.  Violated: only
\* the existence of the output file is tested.
C10_EmptyOutputIsFailure ==
    /\ (pc = "validate" /\ output_path # None => fs[output_path].size > 0)
    /\ (pc = "done" /\ ret # SRC => fs[ret].size > 0)

\* C11: a backend-local failure (gs missing, non-zero exit, no output file,
\* re-encode error) never leaves a compress entry point as an exception: the
\* entry point goes on and hands back a path.
C11_FailuresNeverPropagate ==
    /\ pc # "raised"
    /\ (pc = "done" => ret \in Paths)
    /\ (pc \in {"validate", "safe_validate"} /\ ~log[Len(log)].ok
        => output_path = None)

\* every attempt of compress_pdf and of the retry loop failed, with both
\* backends involved
C11_Witness ==
    /\ pc = "done" /\ Len(log) = 7 /\ source_size > 0
    /\ \A i \in 1..Len(log) : ~log[i].ok
    /\ \E i \in 1..Len(log) : log[i].gs
    /\ \E i \in 1..Len(log) : log[i].fitz

\* the content written by attempt p was taken as the result
Accepted(p) ==
    /\ pc = "done"
    /\ Exists(ret)
    /\ fs[ret].from = p
    /\ (entry = "safe" => fs[ret].size < safe_original_size)

\* C29: backend attempts of one compress_pdf invocation are sequential: when
\* an attempt is started every earlier attempt has finished and has been
\* validated, so at most one attempt is finished but not yet validated and
\* none runs beside another.
C29_AttemptsSequential ==
    entry \in {"smart", "compress"} =>
        /\ pc = "loop" => Len(log) = idx - 1
        /\ pc = "validate" => Len(log) = idx

\* the fourth attempt has returned after three validated ones, gs ran in the third
C29_Witness ==
    /\ entry = "compress"
    /\ pc = "validate"
    /\ idx = 4
    /\ Len(log) = 4
    /\ log[3].gs
    /\ source_size > 0

\* C30: after compress_pdf_with_settings or compress_pdf_safe has returned,
\* the file at pdf_path is still the caller's source, unless the artifact
\* returned is strictly smaller than the source was.
C30_SourceKept ==
    entry = "safe" /\ pc \in {"safe_check", "done"} =>
        LET returned == IF pc = "done" THEN ret ELSE SRC
        IN  \/ fs[SRC] = Original
            \/ Exists(returned) /\ fs[returned].size < source_size

\* C12: when the next attempt starts, and when the invocation ends, no file
\* holds the output of an attempt that succeeded but was not taken.
\* Violated: the ZeroDivisionError of an empty source skips the os.remove.
C12_RejectedOutputsDeleted ==
    pc \in {"loop", "safe_loop", "done"} =>
        \A p \in 1..Len(log) :
            log[p].ok /\ ~Accepted(p) =>
                \A q \in Paths : fs[q] = NoFile \/ fs[q].from # p

\* C13: when the invocation returns, every temporary directory is removed
\* except the one that holds the returned file.  Violated: no mkdtemp
\* directory is ever removed.
C13_TempDirsRemoved ==
    pc = "done" => tmpdirs \subseteq {<<"method", ret>>}

\* C16, as stated: gs availability is probed exactly once per invocation.
C16_ProbedOncePerInvocation ==
    pc = "done" => probes = 1

\* C16, amended: gs availability is probed exactly once per attempted
\* method, so as many times as methods were attempted.
C16_ProbedOncePerAttempt ==
    probes = Len(log)

C16_Witness ==
    pc = "done" /\ Len(log) = 4 /\ probes = 4

----------------------------------------------------------------------------
(* Rasterization and enhancement: pdf_to_images,                           *)
(* pdf_to_images_with_enhancement and adjust_contrast_brightness.  An      *)
(* image file is the pair of its page number and its kind ("png" as        *)
(* rendered, "jpg" as enhanced); all of them are in the temp_dir of the    *)
(* call.  Lengths are integers and zooms are exact fractions.              *)

MaxRasterPages == 3     \* documents rasterized have 0..MaxRasterPages pages

Dpis == {72, 150, 300}
PageDims == {35, 72, 100}
Ceilings == {50, 200}

RasterEntries ==
    {"pdf_to_images", "pdf_to_images_with_enhancement", "adjust_contrast_brightness"}

Frac(n, d) == [num |-> n, den |-> d]
Mul(a, b) == Frac(a.num * b.num, a.den * b.den)
\* fraction a exceeds integer n
Gt(a, n) == a.num > n * a.den
\* the larger of two fractions
Max(a, b) == IF a.num * b.den >= b.num * a.den THEN a ELSE b
\* x / y rounded up
Ceil(x, y) == (x + y - 1) \div y

\* scale_factor taken from the smaller side
scale_factor_of_min(width, height, ms) ==
    LET m == IF Max(width, height) = width THEN height ELSE width
    IN  Frac(ms * m.den, m.num)

\* scale_factor = max_size / max(width, height)
scale_factor(width, height, ms) ==
    LET m == Max(width, height)
    IN  Frac(ms * m.den, m.num)

\* the zoom pdf_to_images renders a page of rw x rh points with
zoom(rw, rh, d, ms) ==
    LET z == Frac(d, 72)
        width == Frac(rw * z.num, z.den)
        height == Frac(rh * z.num, z.den)
    IN  IF Gt(width, ms) \/ Gt(height, ms)
        THEN Mul(z, scale_factor(width, height, ms))
        ELSE z

\* side of the pixmap get_pixmap makes of a side of len points
pix(len, z) == Ceil(len * z.num, z.den)

Range(s) == {s[i] : i \in 1..Len(s)}

\* pdf_to_images_except swallowing the exception
pdf_to_images_except_return == "return"

\* the except branch of pdf_to_images: logger is not defined in the module,
\* logger.error raises NameError; the raise after it would re-raise
pdf_to_images_except == "raise"

\* the except branch of the running entry point, entered from step s at
\* page k.  pdf_to_images_with_enhancement: logger.error raises NameError,
\* the fallback call below it is not reached.  adjust_contrast_brightness:
\* prints the traceback and returns pdf_path.
Except(s, k) ==
    /\ failed' = [step |-> s, page |-> k]
    /\ r_pc' = "done"
    /\ r_ret' = CASE r_entry = "pdf_to_images" ->
                       IF pdf_to_images_except = "raise" THEN "raised" ELSE "images"
                  [] r_entry = "pdf_to_images_with_enhancement" -> "raised"
                  [] OTHER -> "pdf_path"

fitz_open ==
    /\ r_pc = "open"
    /\ \E ok \in BOOLEAN :
          IF ok
          THEN /\ handles' = handles + 1
               /\ r_pc' = "loop"
               /\ UNCHANGED <<failed, r_ret>>
          ELSE /\ Except("open", -1)
               /\ handles' = handles
    /\ UNCHANGED <<r_entry, n_pages, dpi, max_size, page_num, images, files, out,
                   out_pages, renders, last_render>>
    /\ UNCHANGED <<compress_vars, pack_vars,
                   enhance_vars, settings_vars, analyze_vars,
                   optimize_vars, chat_vars>>

\* load_page, get_pixmap and pix.save of one page; pdf_to_images appends the
\* png to images here
get_pixmap ==
    /\ r_pc = "loop"
    /\ page_num < n_pages
    /\ renders' = Append(renders, page_num)
    /\ \E ok \in BOOLEAN, rw \in PageDims, rh \in PageDims :
          IF ok
          THEN /\ files' = files \cup {<<page_num, "png">>}
               /\ IF r_entry = "pdf_to_images"
                  THEN LET z == zoom(rw, rh, dpi, max_size)
                       IN  /\ last_render' = [width |-> rw, height |-> rh,
                                              num |-> z.num, den |-> z.den,
                                              pw |-> pix(rw, z), ph |-> pix(rh, z)]
                           /\ images' = Append(images, <<page_num, "png">>)
                           /\ page_num' = page_num + 1
                           /\ r_pc' = "loop"
                  ELSE /\ r_pc' = "enhance"
                       /\ UNCHANGED <<last_render, images, page_num>>
               /\ UNCHANGED <<failed, r_ret>>
          ELSE /\ Except("render", page_num)
               /\ UNCHANGED <<files, last_render, images, page_num>>
    /\ UNCHANGED <<r_entry, n_pages, dpi, max_size, handles, out, out_pages>>
    /\ UNCHANGED <<compress_vars, pack_vars,
                   enhance_vars, settings_vars, analyze_vars,
                   optimize_vars, chat_vars>>

\* enhance_image_with_settings writes the jpg and removes the png; its own
\* except branch calls logger.error, which raises NameError into the caller.
\* The caller appends the returned path (optimize_image_size in between
\* catches its own exceptions).
enhance_image_with_settings ==
    /\ r_pc = "enhance"
    /\ \E ok \in BOOLEAN :
          IF ok
          THEN /\ files' = (files \ {<<page_num, "png">>}) \cup {<<page_num, "jpg">>}
               /\ images' = Append(images, <<page_num, "jpg">>)
               /\ page_num' = page_num + 1
               /\ r_pc' = "loop"
               /\ UNCHANGED <<failed, r_ret>>
          ELSE /\ Except("enhance", page_num)
               /\ UNCHANGED <<files, images, page_num>>
    /\ UNCHANGED <<r_entry, n_pages, dpi, max_size, handles, out, out_pages,
                   renders, last_render>>
    /\ UNCHANGED <<compress_vars, pack_vars,
                   enhance_vars, settings_vars, analyze_vars,
                   optimize_vars, chat_vars>>

\* doc.close() after the page loop; the two rasterizers return images
doc_close ==
    /\ r_pc = "loop"
    /\ page_num >= n_pages
    /\ handles' = handles - 1
    /\ IF r_entry = "adjust_contrast_brightness"
       THEN /\ r_pc' = "convert"
            /\ r_ret' = r_ret
       ELSE /\ r_pc' = "done"
            /\ r_ret' = "images"
    /\ UNCHANGED <<r_entry, n_pages, dpi, max_size, page_num, images, files, out,
                   out_pages, renders, last_render, failed>>
    /\ UNCHANGED <<compress_vars, pack_vars,
                   enhance_vars, settings_vars, analyze_vars,
                   optimize_vars, chat_vars>>

\* convert with the pages in reverse
convert_reversed(imgs) ==
    [i \in 1..Len(imgs) |-> [from |-> imgs[Len(imgs) + 1 - i][1],
                             enhanced |-> imgs[Len(imgs) + 1 - i][2] = "jpg"]]

\* img2pdf.convert: one page per image of the list, in list order
convert(imgs) ==
    [i \in 1..Len(imgs) |-> [from |-> imgs[i][1], enhanced |-> imgs[i][2] = "jpg"]]

\* adjust_contrast_brightness after doc.close(): write output_pdf_path if
\* there are images, remove the images, return output_pdf_path
img2pdf_convert ==
    /\ r_pc = "convert"
    /\ IF images # <<>>
       THEN \E written \in {"complete", "partial", "none"} :
               /\ out' = written
               /\ IF written = "complete"
                  THEN /\ out_pages' = convert(images)
                       /\ files' = files \ Range(images)
                       /\ r_ret' = "output_pdf_path"
                       /\ r_pc' = "done"
                       /\ failed' = failed
                  ELSE /\ Except("convert", -1)
                       /\ UNCHANGED <<out_pages, files>>
       ELSE /\ r_ret' = "output_pdf_path"
            /\ r_pc' = "done"
            /\ UNCHANGED <<out, out_pages, files, failed>>
    /\ UNCHANGED <<r_entry, n_pages, dpi, max_size, handles, page_num, images,
                   renders, last_render>>
    /\ UNCHANGED <<compress_vars, pack_vars,
                   enhance_vars, settings_vars, analyze_vars,
                   optimize_vars, chat_vars>>

InitRaster ==
    /\ CompressIdle
    /\ OptimizeIdle
    /\ ChatIdle
    /\ PackIdle
    /\ EnhanceIdle
    /\ SettingsIdle
    /\ AnalyzeIdle
    /\ r_pc = "open"
    /\ r_entry \in RasterEntries
    /\ n_pages \in 0..MaxRasterPages
    /\ dpi \in IF r_entry = "adjust_contrast_brightness" THEN {150} ELSE Dpis
    /\ max_size \in IF r_entry = "pdf_to_images" THEN Ceilings ELSE {0}
    /\ handles = 0
    /\ page_num = 0
    /\ images = <<>>
    /\ files = {}
    /\ out = "none"
    /\ out_pages = <<>>
    /\ renders = <<>>
    /\ last_render = NoRender
    /\ failed = NoFailure
    /\ r_ret = "none"

NextRaster ==
    \/ fitz_open
    \/ get_pixmap
    \/ enhance_image_with_settings
    \/ doc_close
    \/ img2pdf_convert

SpecRaster == InitRaster /\ [][NextRaster]_vars

----------------------------------------------------------------------------
(* Properties of rasterization and enhancement *)

\* C14: when adjust_contrast_brightness exits, on the success path and on
\* every failure path, every temporary rendered or enhanced page image it
\* created has been deleted.
C14_TempImagesDeleted ==
    r_pc = "done" /\ r_entry = "adjust_contrast_brightness" => files = {}

\* C15: after a pipeline operation has returned or raised, no document handle
\* it opened is still open.
C15_HandlesClosed ==
    r_pc = "done" => handles = 0

\* C22: the document adjust_contrast_brightness wrote has one page per
\* source page, and its page i is made of the enhanced image of source page i.
C22_OnePagePerSourcePage ==
    r_entry = "adjust_contrast_brightness" /\ r_pc = "done" /\ out = "complete" =>
        /\ r_ret = "output_pdf_path"
        /\ Len(out_pages) = n_pages
        /\ \A i \in 1..n_pages : out_pages[i] = [from |-> i - 1, enhanced |-> TRUE]

\* a document of three pages was enhanced and reassembled
C22_Witness ==
    /\ r_entry = "adjust_contrast_brightness"
    /\ r_pc = "done"
    /\ out = "complete"
    /\ n_pages = 3
    /\ Len(out_pages) = 3

\* C32: when the enhanced conversion of pdf_to_images_with_enhancement fails
\* at a page, the call returns what pdf_to_images gives for the document:
\* one rendered image per page; it does not raise and returns no partial list.
C32_FallsBackToBasicConversion ==
    /\ r_entry = "pdf_to_images_with_enhancement"
    /\ r_pc = "done"
    /\ failed.step \in {"render", "enhance"}
    => /\ r_ret = "images"
       /\ images = [i \in 1..n_pages |-> <<i - 1, "png">>]

\* C17: an entry point returns a path to an existing, completely written
\* output file or signals a failure; it never returns a path where no file
\* was written and never returns a path after a failed run.
C17_OutputOrExplicitFailure ==
    r_pc = "done" /\ r_entry = "adjust_contrast_brightness" =>
        \/ r_ret = "raised"
        \/ r_ret = "output_pdf_path" /\ out = "complete" /\ failed = NoFailure

\* C18: the zoom pdf_to_images renders a page with gives a pixel width and a
\* pixel height of at most max_size, is one zoom for both axes, is never
\* larger than dpi/72, and is dpi/72 exactly when neither side scaled by
\* dpi/72 exceeds max_size.
C18_ZoomRespectsCeiling ==
    r_entry = "pdf_to_images" /\ last_render # NoRender =>
        LET r == last_render
        IN  /\ r.pw <= max_size
            /\ r.ph <= max_size
            /\ r.pw = Ceil(r.width * r.num, r.den)
            /\ r.ph = Ceil(r.height * r.num, r.den)
            /\ r.num * 72 <= dpi * r.den
            /\ (r.num * 72 = dpi * r.den) <=>
                   (r.width * dpi <= 72 * max_size /\ r.height * dpi <= 72 * max_size)

\* a page wider than high was scaled down: its width meets the ceiling and
\* its height falls between two pixels
C18_Witness ==
    /\ r_entry = "pdf_to_images"
    /\ r_ret = "images"
    /\ last_render.width > last_render.height
    /\ last_render.num * 72 < dpi * last_render.den
    /\ last_render.pw = max_size
    /\ (last_render.height * last_render.num) % last_render.den # 0

----------------------------------------------------------------------------
(* Packaging for delivery: process_images (src/main.py) after pdf_to_images *)
(* returned.  An archive is the sequence of the indices of the images in    *)
(* it; its byte size is the sum of their sizes.                             *)

MaxImages == 3      \* pdf_to_images returned 0..MaxImages images
MaxImageSize == 3   \* an image has 1..MaxImageSize bytes
MaxRetries == 3     \* send_document_with_retry runs with max_retries 0..MaxRetries

UnitCeilings == {2, 3}

RECURSIVE UnitSize(_)
UnitSize(u) ==
    IF u = <<>> THEN 0 ELSE image_sizes[Head(u)] + UnitSize(Tail(u))

\* process_images up to its call of create_archive_from_images
process_images ==
    /\ p_pc = "start"
    /\ p_pc' = IF image_sizes = <<>> THEN "done" ELSE "archive"
    /\ UNCHANGED <<image_sizes, ceiling, archive, sent, temp_files, t_pc,
                   max_retries, attempt, t_log, t_ret>>
    /\ UNCHANGED <<compress_vars, raster_vars,
                   enhance_vars, settings_vars, analyze_vars,
                   optimize_vars, chat_vars>>

\* images_list with the images in reverse
images_list_reversed(n) == [i \in 1..n |-> n + 1 - i]

\* images_list: the n images numbered from 1, in the order of images
images_list(n) == [i \in 1..n |-> i]

\* one archive of all the images of images_list, in their order
create_archive_from_images ==
    /\ p_pc = "archive"
    /\ archive' = images_list(Len(image_sizes))
    /\ p_pc' = "send"
    /\ UNCHANGED <<image_sizes, ceiling, sent, temp_files, t_pc,
                   max_retries, attempt, t_log, t_ret>>
    /\ UNCHANGED <<compress_vars, raster_vars,
                   enhance_vars, settings_vars, analyze_vars,
                   optimize_vars, chat_vars>>

\* asyncio.create_task(send_document_with_retry(...)): the archive is handed
\* to a task that is not awaited; CHUNK_SIZE is assigned before it and read
\* nowhere
create_task ==
    /\ p_pc = "send"
    /\ sent' = Append(sent, archive)
    /\ t_pc' = "created"
    /\ p_pc' = "sleep"
    /\ UNCHANGED <<image_sizes, ceiling, archive, temp_files, max_retries,
                   attempt, t_log, t_ret>>
    /\ UNCHANGED <<compress_vars, raster_vars,
                   enhance_vars, settings_vars, analyze_vars,
                   optimize_vars, chat_vars>>

\* await asyncio.sleep(2) and progress_msg.delete() of process_images: the
\* event loop has run the new task up to its first await by then
asyncio_sleep_2 ==
    /\ p_pc = "sleep"
    /\ t_pc # "created"
    /\ p_pc' = "cleanup"
    /\ UNCHANGED <<image_sizes, ceiling, archive, sent, temp_files, t_pc,
                   max_retries, attempt, t_log, t_ret>>
    /\ UNCHANGED <<compress_vars, raster_vars,
                   enhance_vars, settings_vars, analyze_vars,
                   optimize_vars, chat_vars>>

\* the images and temp_dir are removed, process_images returns
cleanup_images_and_temp ==
    /\ p_pc = "cleanup"
    /\ temp_files' = FALSE
    /\ p_pc' = "done"
    /\ UNCHANGED <<image_sizes, ceiling, archive, sent, t_pc,
                   max_retries, attempt, t_log, t_ret>>
    /\ UNCHANGED <<compress_vars, raster_vars,
                   enhance_vars, settings_vars, analyze_vars,
                   optimize_vars, chat_vars>>

\* a sleep after every failed attempt
sleeps_after_always(n, retries) == TRUE

\* if attempt < max_retries - 1: a sleep follows the failed attempt n
sleeps_after(n, retries) == n < retries - 1

\* an entry of t_log
Event(kind, n, v) == [kind |-> kind, n |-> n, v |-> v]

\* the task starts: for attempt in range(max_retries)
send_document_with_retry ==
    /\ t_pc = "created"
    /\ attempt' = 0
    /\ IF max_retries = 0
       THEN t_pc' = "done" /\ t_ret' = "False"
       ELSE t_pc' = "sending" /\ t_ret' = t_ret
    /\ UNCHANGED <<p_pc, image_sizes, ceiling, archive, sent, temp_files,
                   max_retries, t_log>>
    /\ UNCHANGED <<compress_vars, raster_vars,
                   enhance_vars, settings_vars, analyze_vars,
                   optimize_vars, chat_vars>>

\* await bot.send_document(...) returns or raises, then the statements up to
\* the next await or the return
bot_send_document ==
    /\ t_pc = "sending"
    /\ \E ok \in BOOLEAN :
          /\ t_log' = Append(t_log, Event("attempt", attempt, IF ok THEN 1 ELSE 0))
          /\ IF ok
             THEN t_pc' = "done" /\ t_ret' = "True"
             ELSE IF sleeps_after(attempt, max_retries)
                  THEN t_pc' = "backoff" /\ t_ret' = t_ret
                  ELSE t_pc' = "done" /\ t_ret' = "False"
    /\ UNCHANGED <<p_pc, image_sizes, ceiling, archive, sent, temp_files,
                   max_retries, attempt>>
    /\ UNCHANGED <<compress_vars, raster_vars,
                   enhance_vars, settings_vars, analyze_vars,
                   optimize_vars, chat_vars>>

\* await asyncio.sleep(2 ** attempt) is over, the loop goes to its next round
asyncio_sleep ==
    /\ t_pc = "backoff"
    /\ t_log' = Append(t_log, Event("sleep", attempt, 2 ^ attempt))
    /\ IF attempt + 1 < max_retries
       THEN t_pc' = "sending" /\ attempt' = attempt + 1 /\ t_ret' = t_ret
       ELSE t_pc' = "done" /\ attempt' = attempt /\ t_ret' = "False"
    /\ UNCHANGED <<p_pc, image_sizes, ceiling, archive, sent, temp_files,
                   max_retries>>
    /\ UNCHANGED <<compress_vars, raster_vars,
                   enhance_vars, settings_vars, analyze_vars,
                   optimize_vars, chat_vars>>

InitPack ==
    /\ CompressIdle
    /\ OptimizeIdle
    /\ ChatIdle
    /\ RasterIdle
    /\ EnhanceIdle
    /\ SettingsIdle
    /\ AnalyzeIdle
    /\ p_pc = "start"
    /\ image_sizes \in SeqsUpTo(1..MaxImageSize, MaxImages)
    /\ ceiling \in UnitCeilings
    /\ archive = <<>>
    /\ sent = <<>>
    /\ temp_files = TRUE
    /\ t_pc = "none"
    /\ max_retries \in 0..MaxRetries
    /\ attempt = 0
    /\ t_log = <<>>
    /\ t_ret = "none"

NextPack ==
    \/ process_images
    \/ create_archive_from_images
    \/ create_task
    \/ asyncio_sleep_2
    \/ cleanup_images_and_temp
    \/ send_document_with_retry
    \/ bot_send_document
    \/ asyncio_sleep

SpecPack == InitPack /\ [][NextPack]_vars

\* the event loop runs a task that is ready, and a send or a sleep that was
\* awaited comes back
SpecPackFair ==
    /\ SpecPack
    /\ WF_vars(send_document_with_retry)
    /\ WF_vars(bot_send_document)
    /\ WF_vars(asyncio_sleep)

----------------------------------------------------------------------------
(* Properties of packaging *)

RECURSIVE Concat(_)
Concat(units) ==
    IF units = <<>> THEN <<>> ELSE Head(units) \o Concat(Tail(units))

Attempts == SelectSeq(t_log, LAMBDA e : e.kind = "attempt")

RetryDiscipline ==
    /\ Len(Attempts) <= max_retries
    /\ \A i \in 1..Len(Attempts) : Attempts[i].n = i - 1
    /\ \A i \in 1..Len(t_log) :
          /\ t_log[i].kind = "attempt" /\ t_log[i].v = 1 =>
                i = Len(t_log) /\ t_pc = "done" /\ t_ret = "True"
          /\ t_log[i].kind = "attempt" /\ i < Len(t_log) =>
                t_log[i + 1].kind = "sleep"
          /\ t_log[i].kind = "sleep" =>
                /\ i > 1
                /\ t_log[i - 1] = Event("attempt", t_log[i].n, 0)
                /\ t_log[i].v = 2 ^ t_log[i].n
                /\ t_log[i].n < max_retries - 1
                /\ IF i < Len(t_log)
                   THEN t_log[i + 1].kind = "attempt"
                   ELSE t_pc = "sending"
    /\ t_ret = "True" =>
          t_log # <<>> /\ t_log[Len(t_log)] = Event("attempt", Len(Attempts) - 1, 1)
    /\ t_ret = "False" =>
          /\ Len(Attempts) = max_retries
          /\ \A i \in 1..Len(Attempts) : Attempts[i].v = 0
    /\ t_pc = "done" <=> t_ret # "none"

\* C33: send_document_with_retry makes at most max_retries attempts, numbered
\* from 0; a successful attempt is the last one and the task returns True; it
\* returns False only after max_retries failures; a sleep of 2^attempt follows
\* a failed attempt exactly when another attempt follows; and once started
\* the task returns.
C33_BoundedRetries ==
    /\ []RetryDiscipline
    /\ (t_pc = "created") ~> (t_pc = "done")

\* three attempts failed, with sleeps of 1 and 2 between them and none after
\* the last
C33_Witness ==
    /\ max_retries = 3
    /\ t_pc = "done"
    /\ t_ret = "False"
    /\ t_log = <<Event("attempt", 0, 0), Event("sleep", 0, 1),
                 Event("attempt", 1, 0), Event("sleep", 1, 2),
                 Event("attempt", 2, 0)>>

\* C36: the images and temp_dir of the request are removed, and process_images
\* returns, only when the task sending the archive has returned.
C36_CleanupAfterSendCompleted ==
    sent # <<>> /\ (p_pc = "done" \/ ~temp_files) => t_pc = "done"

----------------------------------------------------------------------------
(* enhance_image_with_settings on one image, statement by statement.        *)
(* contrast and sharpness are in hundredths (100 is 1.0), brightness is in  *)
(* the units of the argument.  An image in memory is its mode and the       *)
(* sequence of the operations applied to the pixels it was read with; a     *)
(* file is its format and the operations its pixels went through; an        *)
(* operation is the pair of its name and its parameter.                     *)

Contrasts == {50, 100, 115, 200}
Brightnesses == {-50, 0, 20, 40}
Sharpnesses == {100, 150}
Modes == {"RGB", "L"}

Absent == [format |-> "none", pixels |-> <<>>]

\* the statement after s with contrast put before brightness
step_after_contrast_first(s) ==
    CASE s = "open" -> "auto"
      [] s = "auto" -> "contrast"
      [] s = "contrast" -> "brightness"
      [] s = "brightness" -> "sharpness"
      [] s = "sharpness" -> "save"
      [] OTHER -> "done"

\* the statement that follows statement s in the with block
step_after(s) ==
    CASE s = "open" -> "auto"
      [] s = "auto" -> "brightness"
      [] s = "brightness" -> "contrast"
      [] s = "contrast" -> "sharpness"
      [] s = "sharpness" -> "save"
      [] OTHER -> "done"

\* the image after operation o, or as it is when the step is skipped
Apply(do, o) == IF do THEN [img EXCEPT !.steps = Append(@, o)] ELSE img

\* the except branch: logger.error raises NameError
enhance_except ==
    /\ e_pc' = "done"
    /\ e_ret' = "raised"

\* Image.open(image_path) and the conversion to RGB
Image_open ==
    /\ e_pc = "open"
    /\ \E ok \in BOOLEAN :
          IF ok
          THEN /\ img' = [mode |-> "RGB",
                          steps |-> IF disk.png.mode # "RGB" THEN <<<<"convert_RGB", 0>>>>
                                    ELSE <<>>]
               /\ e_pc' = step_after("open")
               /\ e_ret' = e_ret
          ELSE /\ enhance_except
               /\ img' = img
    /\ UNCHANGED <<e_args, disk>>
    /\ UNCHANGED <<compress_vars, raster_vars, pack_vars, settings_vars, analyze_vars,
                   optimize_vars, chat_vars>>

auto_enhance_image ==
    /\ e_pc = "auto"
    /\ img' = Apply(e_args.auto_enhance, <<"auto_enhance", 0>>)
    /\ e_pc' = step_after("auto")
    /\ UNCHANGED <<e_args, disk, e_ret>>
    /\ UNCHANGED <<compress_vars, raster_vars, pack_vars, settings_vars, analyze_vars,
                   optimize_vars, chat_vars>>

\* brightness_factor = 1 + brightness / 100, here in hundredths
enhance_brightness ==
    /\ e_pc = "brightness"
    /\ img' = Apply(e_args.brightness # 0, <<"brightness", 100 + e_args.brightness>>)
    /\ e_pc' = step_after("brightness")
    /\ UNCHANGED <<e_args, disk, e_ret>>
    /\ UNCHANGED <<compress_vars, raster_vars, pack_vars, settings_vars, analyze_vars,
                   optimize_vars, chat_vars>>

enhance_contrast ==
    /\ e_pc = "contrast"
    /\ img' = Apply(e_args.contrast # 100, <<"contrast", e_args.contrast>>)
    /\ e_pc' = step_after("contrast")
    /\ UNCHANGED <<e_args, disk, e_ret>>
    /\ UNCHANGED <<compress_vars, raster_vars, pack_vars, settings_vars, analyze_vars,
                   optimize_vars, chat_vars>>

enhance_sharpness ==
    /\ e_pc = "sharpness"
    /\ img' = Apply(e_args.sharpness # 100, <<"sharpness", e_args.sharpness>>)
    /\ e_pc' = step_after("sharpness")
    /\ UNCHANGED <<e_args, disk, e_ret>>
    /\ UNCHANGED <<compress_vars, raster_vars, pack_vars, settings_vars, analyze_vars,
                   optimize_vars, chat_vars>>

Abs(x) == IF x < 0 THEN -x ELSE x

quality(brightness, contrast) ==
    IF Abs(brightness) > 30 \/ contrast > 150 THEN 70 ELSE 85

\* img.save(output_path, "JPEG", ...), os.remove(image_path), return
img_save ==
    /\ e_pc = "save"
    /\ \E ok \in BOOLEAN :
          IF ok
          THEN /\ disk' = [png |-> Absent,
                           jpg |-> [format |-> "JPEG",
                                    pixels |-> disk.png.pixels \o img.steps \o
                                        <<<<"jpeg", quality(e_args.brightness,
                                                            e_args.contrast)>>>>]]
               /\ e_ret' = "jpg"
               /\ e_pc' = step_after("save")
          ELSE /\ enhance_except
               /\ disk' = disk
    /\ UNCHANGED <<e_args, img>>
    /\ UNCHANGED <<compress_vars, raster_vars, pack_vars, settings_vars, analyze_vars,
                   optimize_vars, chat_vars>>

InitEnhance ==
    /\ CompressIdle
    /\ OptimizeIdle
    /\ ChatIdle
    /\ RasterIdle
    /\ PackIdle
    /\ SettingsIdle
    /\ AnalyzeIdle
    /\ e_pc = "open"
    /\ e_args \in [contrast : Contrasts, brightness : Brightnesses,
                   sharpness : Sharpnesses, auto_enhance : BOOLEAN]
    /\ img = NoImage
    /\ \E m \in Modes :
          disk = [png |-> [format |-> "PNG", mode |-> m, pixels |-> <<>>],
                  jpg |-> Absent]
    /\ e_ret = "none"

NextEnhance ==
    \/ Image_open
    \/ auto_enhance_image
    \/ enhance_brightness
    \/ enhance_contrast
    \/ enhance_sharpness
    \/ img_save

SpecEnhance == InitEnhance /\ [][NextEnhance]_vars

----------------------------------------------------------------------------
(* Properties of enhance_image_with_settings *)

Step(do, name) == IF do THEN <<name>> ELSE <<>>

\* the names of the operations applied in memory, the mode conversion aside
StepNames ==
    LET named == [i \in 1..Len(img.steps) |-> img.steps[i][1]]
    IN  SelectSeq(named, LAMBDA n : n # "convert_RGB")

\* C23: the steps run in the order auto-enhance, brightness, contrast,
\* sharpness, auto-enhance first when it is set, and a step is left out
\* exactly when its parameter is neutral.
C23_FixedStepOrder ==
    e_pc \in {"save", "done"} /\ e_ret # "raised" =>
        StepNames = Step(e_args.auto_enhance, "auto_enhance")
                    \o Step(e_args.brightness # 0, "brightness")
                    \o Step(e_args.contrast # 100, "contrast")
                    \o Step(e_args.sharpness # 100, "sharpness")

\* all four steps ran
C23_Witness ==
    /\ e_pc = "done"
    /\ e_ret = "jpg"
    /\ StepNames = <<"auto_enhance", "brightness", "contrast", "sharpness">>

\* C31: when a step of enhance_image_with_settings fails, the call does not
\* raise: it returns the original image_path and the original file is still
\* there.
C31_FailureReturnsOriginal ==
    e_pc = "done" /\ e_ret # "jpg" => e_ret = "png" /\ disk.png # Absent

\* C24: with contrast 1.0, brightness 0 and auto_enhance false the file
\* returned holds exactly the pixel data of the input, nothing was applied
\* to it and it was not re-encoded.
C24_NeutralIsExact ==
    /\ e_pc = "done"
    /\ e_ret = "jpg"
    /\ e_args.contrast = 100
    /\ e_args.brightness = 0
    /\ ~e_args.auto_enhance
    => disk.jpg.pixels = <<>>

----------------------------------------------------------------------------
(* The per-user settings store: get_user_settings, update_user_settings,    *)
(* apply_preset and reset_user_settings.  contrast is in hundredths (115 is 1.15); brightness *)
(* and dpi as passed in are in tenths (205 is 20.5), as stored they are     *)
(* whole numbers.  A key the entry does not have is NoValue.                *)

MaxOps == 3         \* calls made on the store in one run

Users == {1, 2}

\* a value that float() and int() refuse
Invalid == -88888

\* user_id_str = str(user_id)
str(u) == IF u = 1 THEN "1" ELSE "2"

NoEntry == [present |-> FALSE, contrast |-> NoValue, brightness |-> NoValue,
            dpi |-> NoValue]
\* the entry {}
Empty == [NoEntry EXCEPT !.present = TRUE]

NoUpdates == [contrast |-> NoValue, brightness |-> NoValue, dpi |-> NoValue]

\* int(x) of a number given in tenths
int(x) == IF x >= 0 THEN x \div 10 ELSE -((-x) \div 10)

IntMax(a, b) == IF a > b THEN a ELSE b

\* clamp that lets every value through
clamp_nothing(lo, hi, x) == x

\* max(lo, min(hi, x))
clamp(lo, hi, x) == IntMax(lo, Min(hi, x))

\* self.default_settings, the keys of the store
default_settings == [present |-> TRUE, contrast |-> 200, brightness |-> 50,
                     dpi |-> 300]

\* the store after get_user_settings(u)
get_user_settings(store, u) ==
    IF ~store[str(u)].present
    THEN [store EXCEPT ![str(u)] = [present |-> TRUE, contrast |-> 115,
                                    brightness |-> 0, dpi |-> 300]]
    ELSE store

\* update_user_settings that assigns the entry from updates alone
update_user_settings_replace(store, u, updates) ==
    LET k == str(u)
        new == [present |-> TRUE,
                contrast |-> IF updates.contrast # NoValue
                             THEN clamp(50, 1000, updates.contrast)
                             ELSE NoValue,
                brightness |-> IF updates.brightness # NoValue
                               THEN clamp(-100, 100, int(updates.brightness))
                               ELSE NoValue,
                dpi |-> IF updates.dpi # NoValue
                        THEN clamp(72, 600, int(updates.dpi))
                        ELSE NoValue]
    IN  IF Invalid \in {updates.contrast, updates.brightness, updates.dpi}
        THEN [store |-> [store EXCEPT ![k] = Empty], raised |-> TRUE]
        ELSE [store |-> [store EXCEPT ![k] = new], raised |-> FALSE]

\* the store after update_user_settings(u, updates) and whether it raised
update_user_settings(store, u, updates) ==
    LET k == str(u)
        created == IF store[k].present THEN store ELSE [store EXCEPT ![k] = Empty]
        e == created[k]
        new == [present |-> TRUE,
                contrast |-> IF updates.contrast # NoValue
                             THEN clamp(50, 1000, updates.contrast)
                             ELSE e.contrast,
                brightness |-> IF updates.brightness # NoValue
                               THEN clamp(-100, 100, int(updates.brightness))
                               ELSE e.brightness,
                dpi |-> IF updates.dpi # NoValue
                        THEN clamp(72, 600, int(updates.dpi))
                        ELSE e.dpi]
    IN  IF Invalid \in {updates.contrast, updates.brightness, updates.dpi}
        THEN [store |-> created, raised |-> TRUE]
        ELSE [store |-> [created EXCEPT ![k] = new], raised |-> FALSE]

\* get_enhancement_presets, the keys of the store
presets ==
    [light |-> [NoUpdates EXCEPT !.contrast = 150, !.brightness = 300],
     medium |-> [NoUpdates EXCEPT !.contrast = 200, !.brightness = 500],
     strong |-> [NoUpdates EXCEPT !.contrast = 250, !.brightness = 700],
     extreme_light |-> [NoUpdates EXCEPT !.contrast = 300, !.brightness = 800],
     extreme_dark |-> [NoUpdates EXCEPT !.contrast = 280, !.brightness = -600],
     vivid_colors |-> [NoUpdates EXCEPT !.contrast = 220, !.brightness = 400],
     dramatic_bw |-> [NoUpdates EXCEPT !.contrast = 300, !.brightness = 200],
     custom |-> NoUpdates]

PresetNames == DOMAIN presets \cup {"unknown"}

\* the values a caller passes for one key
ContrastInputs == {9, 150, 1001, Invalid}
BrightnessInputs == {-1009, 200, 205, 1010}
DpiInputs == {710, 3000, 6010}

OneKeyUpdates ==
    {[NoUpdates EXCEPT !.contrast = c] : c \in ContrastInputs}
    \cup {[NoUpdates EXCEPT !.brightness = b] : b \in BrightnessInputs}
    \cup {[NoUpdates EXCEPT !.dpi = d] : d \in DpiInputs}

Called(name, u, updates, result) ==
    /\ n_ops < MaxOps
    /\ n_ops' = n_ops + 1
    /\ op' = name
    /\ request' = [user |-> u, contrast |-> updates.contrast,
                   brightness |-> updates.brightness, dpi |-> updates.dpi,
                   result |-> result]

\* update_user_settings(u, updates) with its save_user_settings
Updated(name, u, updates) ==
    LET r == update_user_settings(user_settings, u, updates)
    IN  /\ Called(name, u, updates, IF r.raised THEN "raised" ELSE "stored")
        /\ user_settings' = r.store
        /\ settings_file' = IF r.raised THEN settings_file ELSE r.store

Refused(name, u, updates) ==
    /\ Called(name, u, updates, "rejected")
    /\ UNCHANGED <<user_settings, settings_file>>

Keys == {str(u) : u \in Users}

\* a pipeline operation reads the settings of user u: adjust_contrast_brightness,
\* convert_to_images_with_settings, pdf_to_images_with_enhancement and
\* process_images all start with get_user_settings(user_id)
GetUserSettings ==
    /\ \E u \in Users :
          /\ Called("get_user_settings", u, NoUpdates, "returned")
          /\ user_settings' = get_user_settings(user_settings, u)
          /\ settings_file' = settings_file
    /\ UNCHANGED <<compress_vars, raster_vars, pack_vars, enhance_vars, analyze_vars,
                   optimize_vars, chat_vars>>

\* update_user_settings called with one key
UpdateUserSettings ==
    /\ \E u \in Users, updates \in OneKeyUpdates :
          Updated("update_user_settings", u, updates)
    /\ UNCHANGED <<compress_vars, raster_vars, pack_vars, enhance_vars, analyze_vars,
                   optimize_vars, chat_vars>>

apply_preset ==
    /\ \E u \in Users, preset_name \in PresetNames :
          IF preset_name \in DOMAIN presets
          THEN Updated("apply_preset", u, presets[preset_name])
          ELSE Refused("apply_preset", u, NoUpdates)
    /\ UNCHANGED <<compress_vars, raster_vars, pack_vars, enhance_vars, analyze_vars,
                   optimize_vars, chat_vars>>

reset_user_settings ==
    /\ \E u \in Users :
          /\ Called("reset_user_settings", u, NoUpdates, "stored")
          /\ user_settings' = [user_settings EXCEPT ![str(u)] = default_settings]
          /\ settings_file' = user_settings'
    /\ UNCHANGED <<compress_vars, raster_vars, pack_vars, enhance_vars, analyze_vars,
                   optimize_vars, chat_vars>>

InitSettings ==
    /\ CompressIdle
    /\ OptimizeIdle
    /\ ChatIdle
    /\ RasterIdle
    /\ PackIdle
    /\ EnhanceIdle
    /\ AnalyzeIdle
    /\ user_settings = [k \in Keys |-> NoEntry]
    /\ settings_file = [k \in Keys |-> NoEntry]
    /\ op = "none"
    /\ request = NoRequest
    /\ n_ops = 0

NextSettings ==
    \/ GetUserSettings
    \/ UpdateUserSettings
    \/ apply_preset
    \/ reset_user_settings

SpecSettings == InitSettings /\ [][NextSettings]_vars

----------------------------------------------------------------------------
(* Properties of the settings store *)

\* the calls that go through update_user_settings
UpdateCalls == {"update_user_settings", "apply_preset",
                "process_custom_contrast", "process_custom_brightness"}

\* C38: a call of update_user_settings for user u leaves every other user's
\* entry and every key of u that is not in updates as they were; and when
\* update_user_settings or reset_user_settings has returned, the settings
\* file holds what the store in memory holds.
C38_UpdateTouchesOnlyItsKeys ==
    [][n_ops' = n_ops + 1 /\ request'.result \in {"stored", "raised"}
       => LET k == str(request'.user)
          IN  /\ \A j \in Keys \ {k} : user_settings'[j] = user_settings[j]
              /\ op' \in UpdateCalls =>
                    /\ request'.contrast = NoValue =>
                          user_settings'[k].contrast = user_settings[k].contrast
                    /\ request'.brightness = NoValue =>
                          user_settings'[k].brightness = user_settings[k].brightness
                    /\ request'.dpi = NoValue =>
                          user_settings'[k].dpi = user_settings[k].dpi
              /\ request'.result = "stored" => settings_file' = user_settings'
      ]_vars

\* an update of user 1's dpi alone was stored while user 1 had a contrast and
\* user 2 an entry
C38_Witness ==
    /\ op = "update_user_settings"
    /\ request.user = 1
    /\ request.result = "stored"
    /\ request.dpi # NoValue
    /\ user_settings["1"].contrast # NoValue
    /\ user_settings["1"].dpi # NoValue
    /\ user_settings["2"].present
    /\ settings_file = user_settings

\* C25: a pipeline operation only reads the settings store: the step in which
\* it gets the settings of a user, stored or not, leaves the store as it was.
C25_PipelineOnlyReads ==
    [][n_ops' # n_ops /\ op' = "get_user_settings"
          => user_settings' = user_settings]_vars

\* C26: every stored dpi is in [72,600], every stored contrast in [0.1,10.0]
\* and every stored brightness in [-100,100].
C26_StoredValuesInRange ==
    \A k \in DOMAIN user_settings :
        LET e == user_settings[k]
        IN  /\ e.dpi # NoValue => 72 <= e.dpi /\ e.dpi <= 600
            /\ e.contrast # NoValue => 10 <= e.contrast /\ e.contrast <= 1000
            /\ e.brightness # NoValue => -100 <= e.brightness /\ e.brightness <= 100

\* a dpi above 600 was passed after a preset and a reset
C26_Witness ==
    /\ n_ops = 3
    /\ op = "update_user_settings"
    /\ request.dpi = 6010
    /\ user_settings[str(request.user)].dpi = 600
    /\ user_settings[str(request.user)].contrast = 300
    /\ \E k \in Keys : user_settings[k] = default_settings

OutOfRange(r) ==
    \/ r.contrast \notin {NoValue, Invalid} /\ (r.contrast < 10 \/ r.contrast > 1000)
    \/ r.brightness \notin {NoValue, Invalid}
          /\ (r.brightness < -1000 \/ r.brightness > 1000)
    \/ r.dpi \notin {NoValue, Invalid} /\ (r.dpi < 720 \/ r.dpi > 6000)

\* C27: a call that passes an out-of-range value to the store is rejected
\* and leaves the stored settings unchanged.
C27_OutOfRangeRejected ==
    [][n_ops' # n_ops /\ OutOfRange(request')
          => request'.result = "rejected" /\ user_settings' = user_settings]_vars

----------------------------------------------------------------------------
(* analyze_pdf_structure on one document.  A page is the text get_text()    *)
(* extracts from it and the number of entries get_images() lists for it.    *)

Texts == {"", " ", "a"}

RawPage == [text : Texts, images : 0..1]

\* text.strip()
strip(text) == IF text = " " THEN "" ELSE text

\* the two tests of the loop body on one page
page_info(page) == [text |-> strip(page.text) # "", images |-> page.images > 0]

analyze ==
    /\ a_pc = "start"
    /\ a_info' = analyze_pdf_structure(a_opens,
                     [i \in 1..Len(a_doc) |-> page_info(a_doc[i])], SmallSize)
    /\ a_pc' = "done"
    /\ UNCHANGED <<a_doc, a_opens>>
    /\ UNCHANGED <<compress_vars, raster_vars, pack_vars, enhance_vars, settings_vars,
                   optimize_vars, chat_vars>>

InitAnalyze ==
    /\ CompressIdle
    /\ OptimizeIdle
    /\ ChatIdle
    /\ RasterIdle
    /\ PackIdle
    /\ EnhanceIdle
    /\ SettingsIdle
    /\ a_pc = "start"
    /\ a_doc \in SeqsUpTo(RawPage, MaxPages)
    /\ a_opens \in BOOLEAN
    /\ a_info = NoInfo

NextAnalyze ==
    \/ analyze

SpecAnalyze == InitAnalyze /\ [][NextAnalyze]_vars

----------------------------------------------------------------------------
(* Properties of analyze_pdf_structure *)

\* C28: has_text is true iff one of the first min(3, page count) pages has
\* text that is not only whitespace, has_images is true iff one of those
\* pages lists an image; a page after the third has no influence.
C28_FirstThreePagesOnly ==
    a_pc = "done" /\ a_info.ok =>
        LET sampled == {i \in 1..Len(a_doc) : i <= 3}
        IN  /\ a_info.has_text <=> \E i \in sampled : a_doc[i].text \notin {"", " "}
            /\ a_info.has_images <=> \E i \in sampled : a_doc[i].images >= 1

\* only the fourth page has text and an image; the first three have blanks
C28_Witness ==
    /\ a_pc = "done"
    /\ a_info.ok
    /\ Len(a_doc) = 4
    /\ a_doc[4] = [text |-> "a", images |-> 1]
    /\ \A i \in 1..3 : a_doc[i] = [text |-> " ", images |-> 0]
    /\ ~a_info.has_text
    /\ ~a_info.has_images

----------------------------------------------------------------------------
(* optimize_image_size on one image file.  Sizes are in bytes; a size of 0  *)
(* at a path says that no file is there.  What a re-encode at a given       *)
(* quality weighs depends on the image: any size can come out.              *)

MaxSize == 4        \* a file has up to MaxSize bytes

\* file_size = os.path.getsize(image_path) and the early return
optimize_image_size ==
    /\ o_pc = "start"
    /\ IF o_disk.image = 0
       THEN o_pc' = "done" /\ o_ret' = "False" /\ file_size' = file_size
       ELSE /\ file_size' = o_disk.image
            /\ IF o_disk.image <= max_file_size
               THEN o_pc' = "done" /\ o_ret' = "True"
               ELSE o_pc' = "open" /\ o_ret' = o_ret
    /\ UNCHANGED <<o_disk, max_file_size, o_opens, o_quality, o_saves>>
    /\ UNCHANGED <<compress_vars, raster_vars, pack_vars, enhance_vars,
                   settings_vars, analyze_vars, chat_vars>>

\* Image.open, the resize to at most 1280 px of the image in memory, and
\* quality = 90
img_resize ==
    /\ o_pc = "open"
    /\ IF o_opens
       THEN o_pc' = "loop" /\ o_quality' = 90 /\ o_ret' = o_ret
       ELSE o_pc' = "done" /\ o_quality' = o_quality /\ o_ret' = "False"
    /\ UNCHANGED <<o_disk, max_file_size, o_opens, file_size, o_saves>>
    /\ UNCHANGED <<compress_vars, raster_vars, pack_vars, enhance_vars,
                   settings_vars, analyze_vars, chat_vars>>

\* one round of while quality > 40 and file_size > max_file_size: the save
\* to temp_path, which may raise
img_save_temp ==
    /\ o_pc = "loop"
    /\ o_quality > 40 /\ file_size > max_file_size
    /\ \/ /\ o_pc' = "done"
          /\ o_ret' = "False"
          /\ o_saves' = Append(o_saves, o_quality)
          /\ UNCHANGED <<o_disk, file_size, o_quality>>
       \/ \E n \in 1..MaxSize :
             /\ o_disk' = [o_disk EXCEPT !.temp = n]
             /\ file_size' = n
             /\ o_saves' = Append(o_saves, o_quality)
             /\ o_quality' = o_quality - 10
             /\ UNCHANGED <<o_pc, o_ret>>
    /\ UNCHANGED <<max_file_size, o_opens>>
    /\ UNCHANGED <<compress_vars, raster_vars, pack_vars, enhance_vars,
                   settings_vars, analyze_vars, chat_vars>>

\* after the loop: os.replace(temp_path, image_path) and return True
os_replace ==
    /\ o_pc = "loop"
    /\ ~(o_quality > 40 /\ file_size > max_file_size)
    /\ o_disk' = [image |-> o_disk.temp, temp |-> 0]
    /\ o_pc' = "done"
    /\ o_ret' = "True"
    /\ UNCHANGED <<max_file_size, o_opens, file_size, o_quality, o_saves>>
    /\ UNCHANGED <<compress_vars, raster_vars, pack_vars, enhance_vars,
                   settings_vars, analyze_vars, chat_vars>>

InitOptimize ==
    /\ CompressIdle
    /\ RasterIdle
    /\ PackIdle
    /\ EnhanceIdle
    /\ SettingsIdle
    /\ AnalyzeIdle
    /\ ChatIdle
    /\ o_pc = "start"
    /\ o_disk \in [image : 0..MaxSize, temp : {0}]
    /\ max_file_size \in {2, 3}
    /\ o_opens \in BOOLEAN
    /\ file_size = 0
    /\ o_quality = 0
    /\ o_saves = <<>>
    /\ o_ret = "none"

NextOptimize ==
    \/ optimize_image_size
    \/ img_resize
    \/ img_save_temp
    \/ os_replace

SpecOptimize == InitOptimize /\ [][NextOptimize]_vars

----------------------------------------------------------------------------
(* Properties of optimize_image_size *)

\* C39: optimize_image_size ends after at most five re-encodes, made at the
\* qualities 90, 80, 70, 60, 50 in that order and only while the file is
\* over max_file_size; when it returns True the file at image_path is no
\* larger than max_file_size.
C39_TrueMeansFits ==
    /\ Len(o_saves) <= 5
    /\ o_saves = SubSeq(<<90, 80, 70, 60, 50>>, 1, Len(o_saves))
    /\ o_saves # <<>> /\ o_pc = "loop" /\ file_size <= max_file_size =>
          ~ENABLED img_save_temp
    /\ o_ret = "True" => o_disk.image <= max_file_size

----------------------------------------------------------------------------
(* One user's conversation with the bot (src/main.py): the FSM state and    *)
(* data of the user, the uploads on disk and the settings store.  Upload k  *)
(* is the k-th document received: its temp_dir and the input file in it     *)
(* carry the number k, 0 says that the key is not in the FSM data.  A       *)
(* handler runs as one step.  A button can be pressed while a message of    *)
(* the chat carries a keyboard: the menus lead to one another, and the      *)
(* handler that starts a pipeline replaces the keyboard by its progress     *)
(* text.                                                                    *)

MaxUploads == 2     \* documents sent in one conversation

from_user == 1

chat_rest == <<compress_vars, raster_vars, pack_vars, enhance_vars,
               analyze_vars, optimize_vars>>

\* a typed contrast accepted up to the 10.0 of the store
contrast_accepted_to_10(contrast) ==
    contrast # Invalid /\ 50 <= contrast /\ contrast <= 1000

\* float(message.text) and 0.5 <= contrast <= 2.0
contrast_accepted(contrast) ==
    contrast # Invalid /\ 50 <= contrast /\ contrast <= 200

\* int(message.text), which takes whole numbers only, and
\* -100 <= brightness <= 100
brightness_accepted(brightness) ==
    brightness % 10 = 0 /\ -100 <= int(brightness) /\ int(brightness) <= 100

\* await state.clear()
state_clear ==
    /\ fsm_state' = "None"
    /\ fsm_data' = NoData

cmd_start ==
    /\ state_clear
    /\ UNCHANGED <<pdf_files, n_uploads, keyboards, started>>
    /\ UNCHANGED <<settings_vars, chat_rest>>

\* a PDF document arrives; the download may fail
handle_pdf ==
    /\ n_uploads < MaxUploads
    /\ n_uploads' = n_uploads + 1
    /\ fsm_state' = "waiting_for_action"
    /\ \E downloaded \in BOOLEAN :
          IF downloaded
          THEN /\ pdf_files' = pdf_files \cup {n_uploads'}
               /\ fsm_data' = [fsm_data EXCEPT !.input_pdf_path = n_uploads',
                                               !.temp_dir = n_uploads']
               /\ keyboards' = keyboards + 1
          ELSE UNCHANGED <<pdf_files, fsm_data, keyboards>>
    /\ UNCHANGED started
    /\ UNCHANGED <<settings_vars, chat_rest>>

\* a handler takes input_pdf_path from the FSM data and starts its pipeline
Start(handler) ==
    /\ keyboards > 0
    /\ keyboards' = keyboards - 1
    /\ started' = [handler |-> handler, path |-> fsm_data.input_pdf_path,
                   exists |-> fsm_data.input_pdf_path \in pdf_files]

\* the pipeline ends; temp_dir is removed when the handler got to its end
Finish ==
    \E completed \in (IF fsm_data.input_pdf_path \in pdf_files
                      THEN BOOLEAN ELSE {FALSE}) :
        pdf_files' = IF completed THEN pdf_files \ {fsm_data.temp_dir}
                     ELSE pdf_files

\* process_images
action_images ==
    /\ Start("action_images")
    /\ Called("get_user_settings", from_user, NoUpdates, "returned")
    /\ user_settings' = get_user_settings(user_settings, from_user)
    /\ Finish
    /\ UNCHANGED <<fsm_state, fsm_data, n_uploads, settings_file>>
    /\ UNCHANGED chat_rest

\* process_compress
action_compress ==
    /\ Start("action_compress")
    /\ Finish
    /\ UNCHANGED <<fsm_state, fsm_data, n_uploads>>
    /\ UNCHANGED <<settings_vars, chat_rest>>

\* process_contrast
action_contrast ==
    /\ keyboards > 0
    /\ fsm_data' = [fsm_data EXCEPT !.action = "contrast"]
    /\ Called("get_user_settings", from_user, NoUpdates, "returned")
    /\ user_settings' = get_user_settings(user_settings, from_user)
    /\ UNCHANGED <<fsm_state, pdf_files, n_uploads, keyboards, started,
                   settings_file>>
    /\ UNCHANGED chat_rest

apply_contrast ==
    /\ Start("apply_contrast")
    /\ Called("get_user_settings", from_user, NoUpdates, "returned")
    /\ user_settings' = get_user_settings(user_settings, from_user)
    /\ Finish
    /\ UNCHANGED <<fsm_state, fsm_data, n_uploads, settings_file>>
    /\ UNCHANGED chat_rest

\* process_settings and process_back to the settings menu show the settings
process_settings ==
    /\ keyboards > 0
    /\ Called("get_user_settings", from_user, NoUpdates, "returned")
    /\ user_settings' = get_user_settings(user_settings, from_user)
    /\ UNCHANGED <<chat_vars, settings_file>>
    /\ UNCHANGED chat_rest

process_quality_setting ==
    /\ keyboards > 0
    /\ \E d \in {3000, 1500, 720} :
          Updated("process_quality_setting", from_user,
                  [NoUpdates EXCEPT !.dpi = d])
    /\ UNCHANGED chat_vars
    /\ UNCHANGED chat_rest

process_contrast_setting ==
    /\ keyboards > 0
    /\ \/ /\ \E contrast \in {130, 115, 105} :
                Updated("process_contrast_setting", from_user,
                        [NoUpdates EXCEPT !.contrast = contrast])
          /\ UNCHANGED chat_vars
       \/ /\ fsm_state' = "waiting_for_contrast_settings"
          /\ UNCHANGED <<fsm_data, pdf_files, n_uploads, keyboards, started>>
          /\ UNCHANGED settings_vars
    /\ UNCHANGED chat_rest

process_brightness_setting ==
    /\ keyboards > 0
    /\ \/ /\ \E brightness \in {200, -200} :
                Updated("process_brightness_setting", from_user,
                        [NoUpdates EXCEPT !.brightness = brightness])
          /\ UNCHANGED chat_vars
       \/ /\ fsm_state' = "waiting_for_brightness_settings"
          /\ UNCHANGED <<fsm_data, pdf_files, n_uploads, keyboards, started>>
          /\ UNCHANGED settings_vars
    /\ UNCHANGED chat_rest

\* a text arrives while the state is waiting_for_contrast_settings
process_custom_contrast ==
    /\ fsm_state = "waiting_for_contrast_settings"
    /\ \E contrast \in {49, 50, 200, 201, Invalid} :
          LET updates == [NoUpdates EXCEPT !.contrast = contrast]
          IN  IF contrast_accepted(contrast)
              THEN /\ Updated("process_custom_contrast", from_user, updates)
                   /\ keyboards' = keyboards + 1
                   /\ state_clear
              ELSE /\ Refused("process_custom_contrast", from_user, updates)
                   /\ UNCHANGED <<fsm_state, fsm_data, keyboards>>
    /\ UNCHANGED <<pdf_files, n_uploads, started>>
    /\ UNCHANGED chat_rest

\* a text arrives while the state is waiting_for_brightness_settings
process_custom_brightness ==
    /\ fsm_state = "waiting_for_brightness_settings"
    /\ \E brightness \in {-1010, -1000, 205, 1000, 1010} :
          LET updates == [NoUpdates EXCEPT !.brightness = brightness]
          IN  IF brightness_accepted(brightness)
              THEN /\ Updated("process_custom_brightness", from_user, updates)
                   /\ keyboards' = keyboards + 1
                   /\ state_clear
              ELSE /\ Refused("process_custom_brightness", from_user, updates)
                   /\ UNCHANGED <<fsm_state, fsm_data, keyboards>>
    /\ UNCHANGED <<pdf_files, n_uploads, started>>
    /\ UNCHANGED chat_rest

InitChat ==
    /\ CompressIdle
    /\ RasterIdle
    /\ PackIdle
    /\ EnhanceIdle
    /\ AnalyzeIdle
    /\ OptimizeIdle
    /\ user_settings = [k \in Keys |-> NoEntry]
    /\ settings_file = [k \in Keys |-> NoEntry]
    /\ op = "none"
    /\ request = NoRequest
    /\ n_ops = 0
    /\ ChatIdle

NextChat ==
    \/ cmd_start
    \/ handle_pdf
    \/ action_images
    \/ action_compress
    \/ action_contrast
    \/ apply_contrast
    \/ process_settings
    \/ process_quality_setting
    \/ process_contrast_setting
    \/ process_brightness_setting
    \/ process_custom_contrast
    \/ process_custom_brightness

SpecChat == InitChat /\ [][NextChat]_vars

----------------------------------------------------------------------------
(* Properties of the conversation *)

\* the handlers that change a setting
SettingsPaths == {"process_quality_setting", "process_contrast_setting",
                  "process_brightness_setting", "process_custom_contrast",
                  "process_custom_brightness"}

\* C34: a handler that stores a setting while the FSM data holds an upload
\* leaves input_pdf_path and temp_dir in the FSM data as they were.
C34_SettingsKeepUpload ==
    [][/\ n_ops' = n_ops + 1
       /\ op' \in SettingsPaths
       /\ request'.result = "stored"
       /\ fsm_data.input_pdf_path # 0
       => /\ fsm_data'.input_pdf_path = fsm_data.input_pdf_path
          /\ fsm_data'.temp_dir = fsm_data.temp_dir
      ]_vars

\* C35: a handler that started a pipeline found in the FSM data an
\* input_pdf_path, and the file of that path was on disk.
C35_StartedOnExistingFile ==
    started.handler # "none" => started.path # 0 /\ started.exists

WaitingStates == {"waiting_for_contrast_settings",
                  "waiting_for_brightness_settings"}

====
